---- MODULE Spec2Model ----
(***************************************************************************)
(* Conditional independencies of an acyclic directed mixed graph (y0):     *)
(* the d-separation test (are_d_separated), the enumerator (d_separations) *)
(* and the minimal-cover reducer (minimal) with its two policies.          *)
(***************************************************************************)
EXTENDS FiniteSets, Integers, Sequences, TLC

VARIABLES graph, kind, nonvar, order, max_conditions, return_all, policy, topo,
          pi, ci, yielded, tested, transforms, pc, result, raised, prev,
          call, judgement

vars == <<graph, kind, nonvar, order, max_conditions, return_all, policy, topo,
          pi, ci, yielded, tested, transforms, pc, result, raised, prev,
          call, judgement>>

\* Largest number of nodes of a graph.
NumNodes == 4
\* Largest number of bidirected edges of a graph.
MaxBi == 1
\* Largest max_conditions handed to d_separations.
MaxStop == 1
\* Number of variables the judgements handed to minimal are drawn from.
NumVars == 6
\* Largest number of conditions of a judgement handed to minimal.
MaxConds == 2
\* Largest number of judgements handed to minimal.
MaxJudgements == 2

Nodes == 1..NumNodes

------------------------------------------------------------------------------
(* Variables and their names.  A name is a string, kept as its sequence of  *)
(* character codes: node 1 is "A", node 2 is "B", ...                       *)

Name(v) == <<64 + v>>

RECURSIVE StrLess(_, _)
StrLess(s, t) ==
    IF t = <<>> THEN FALSE
    ELSE IF s = <<>> THEN TRUE
    ELSE IF Head(s) # Head(t) THEN Head(s) < Head(t)
    ELSE StrLess(Tail(s), Tail(t))

StrLeq(s, t) == s = t \/ StrLess(s, t)

\* sorted(S, key=str): the elements of S in increasing order of name.
RECURSIVE SortedByName(_)
SortedByName(S) ==
    IF S = {} THEN <<>>
    ELSE LET m == CHOOSE x \in S : \A y \in S : StrLeq(Name(x), Name(y))
         IN  <<m>> \o SortedByName(S \ {m})

SeqToSet(s) == {s[i] : i \in 1..Len(s)}

------------------------------------------------------------------------------
(* The mixed graph: nodes, directed edges <<u, v>> (u -> v), bidirected     *)
(* edges <<u, v>> with u < v (u <-> v), and the undirected edges that       *)
(* moralization adds to the working copy.                                   *)

RECURSIVE ancestors(_, _)
ancestors(G, S) ==
    LET P == S \cup {u \in G.nodes : \E v \in S : <<u, v>> \in G.di}
    IN  IF P = S THEN S ELSE ancestors(G, P)

IsAcyclic(nodes, di) ==
    LET G == [nodes |-> nodes, di |-> di]
    IN  \A e \in di : e[2] \notin ancestors(G, {e[1]})

BiPairs(nodes) == {e \in nodes \X nodes : e[1] < e[2]}

AllGraphs(nodes) ==
    {[nodes |-> nodes, di |-> d, bi |-> b, ud |-> {}] :
        d \in {x \in SUBSET {e \in nodes \X nodes : e[1] # e[2]} : IsAcyclic(nodes, x)},
        b \in {x \in SUBSET BiPairs(nodes) : Cardinality(x) <= MaxBi}}

parents(G, v) == {u \in G.nodes : <<u, v>> \in G.di}

subgraph(G, keep) ==
    [nodes |-> G.nodes \cap keep,
     di |-> {e \in G.di : e[1] \in keep /\ e[2] \in keep},
     bi |-> {e \in G.bi : e[1] \in keep /\ e[2] \in keep},
     ud |-> {e \in G.ud : e[1] \in keep /\ e[2] \in keep}]

\* combinations(nodes, 2) of a set, as unordered pairs.
Pairs2(S) == {{u, v} : u \in S, v \in S} \ {{u} : u \in S}

\* get_moral_links with the co-parents left unlinked.
get_moral_links_none(G) == {}

\* The links between the parents of each vertex.  The filter of the source
\* tests the length of the list of parent sets (one per vertex), not of a
\* parent set.
get_moral_links(G) ==
    UNION {Pairs2(parents(G, v)) : v \in {w \in G.nodes : Cardinality(G.nodes) > 1}}

add_udedges(G, links) == [G EXCEPT !.ud = @ \cup links]

\* The undirected graph on the same nodes: every edge, its type and direction dropped.
disorient(G) ==
    [nodes |-> G.nodes,
     edges |-> {{e[1], e[2]} : e \in G.di} \cup G.ud \cup {{e[1], e[2]} : e \in G.bi}]

RECURSIVE Reach(_, _)
Reach(U, S) ==
    LET P == S \cup {v \in U.nodes : \E u \in S : {u, v} \in U.edges}
    IN  IF P = S THEN S ELSE Reach(U, P)

has_path(U, a, b) == b \in Reach(U, {a})

\* DSeparationJudgement.create: left and right in name order, the conditions
\* as the sorted tuple of the distinct condition variables.
create(left, right, conditions, separated) ==
    [left       |-> IF StrLeq(Name(left), Name(right)) THEN left ELSE right,
     right      |-> IF StrLeq(Name(left), Name(right)) THEN right ELSE left,
     conditions |-> SortedByName(conditions),
     separated  |-> separated]

\* are_d_separated with the type check of the conditions left out.
are_d_separated_unchecked_conditions(G, gkind, nv, a, b, conditions) ==
    IF gkind = "ADMG" THEN [error |-> "NoAnankeError", evidence |-> <<>>, value |-> <<>>]
    ELSE IF a \in nv \/ b \in nv
    THEN [error |-> "TypeError", evidence |-> <<>>, value |-> <<>>]
    ELSE
    LET named    == {a, b} \cup conditions
        keep     == ancestors(G, named)
        admg     == subgraph(G, keep)
        moral    == add_udedges(admg, get_moral_links(admg))
        dis      == disorient(moral)
        keep2    == dis.nodes \ conditions
        evidence == [nodes |-> keep2,
                     edges |-> {e \in dis.edges : e \subseteq keep2}]
        separated == ~has_path(evidence, a, b)
    IN  [error |-> "", evidence |-> <<evidence>>,
         value |-> <<create(a, b, conditions, separated)>>]

\* are_d_separated with the right argument left out of the named nodes.
are_d_separated_left_only(G, gkind, nv, a, b, conditions) ==
    IF gkind = "ADMG" THEN [error |-> "NoAnankeError", evidence |-> <<>>, value |-> <<>>]
    ELSE IF a \in nv \/ b \in nv \/ conditions \cap nv # {}
    THEN [error |-> "TypeError", evidence |-> <<>>, value |-> <<>>]
    ELSE
    LET named    == {a} \cup conditions
        keep     == ancestors(G, named)
        admg     == subgraph(G, keep)
        moral    == add_udedges(admg, get_moral_links(admg))
        dis      == disorient(moral)
        keep2    == dis.nodes \ conditions
        evidence == [nodes |-> keep2,
                     edges |-> {e \in dis.edges : e \subseteq keep2}]
        separated == ~has_path(evidence, a, b)
    IN  [error |-> "", evidence |-> <<evidence>>,
         value |-> <<create(a, b, conditions, separated)>>]

\* are_d_separated(graph, a, b, conditions=conditions), on a graph of kind
\* gkind whose nodes in nv are not Variable instances.
are_d_separated(G, gkind, nv, a, b, conditions) ==
    IF gkind = "ADMG" THEN [error |-> "NoAnankeError", evidence |-> <<>>, value |-> <<>>]
    ELSE IF a \in nv \/ b \in nv \/ conditions \cap nv # {}
    THEN [error |-> "TypeError", evidence |-> <<>>, value |-> <<>>]
    ELSE
    LET named    == {a, b} \cup conditions
        keep     == ancestors(G, named)
        admg     == subgraph(G, keep)
        moral    == add_udedges(admg, get_moral_links(admg))
        dis      == disorient(moral)
        keep2    == dis.nodes \ conditions
        evidence == [nodes |-> keep2,
                     edges |-> {e \in dis.edges : e \subseteq keep2}]
        separated == ~has_path(evidence, a, b)
    IN  [error |-> "", evidence |-> <<evidence>>,
         value |-> <<create(a, b, conditions, separated)>>]

------------------------------------------------------------------------------
(* The minimal-cover reducer and its policies.                              *)

VarLess(u, v) == StrLess(Name(u), Name(v))

\* Tuples of two integers compared as Python compares tuples.
IntPairLess(k1, k2) == k1[1] < k2[1] \/ (k1[1] = k2[1] /\ k1[2] < k2[2])

\* Tuples of two variables compared as Python compares tuples.
VarPairLess(k1, k2) == VarLess(k1[1], k2[1]) \/ (k1[1] = k2[1] /\ VarLess(k1[2], k2[2]))

\* The grouping key with the right node forgotten.
judgement_grouper_left_only(j) == <<j.left, j.left>>

judgement_grouper(j) == <<j.left, j.right>>

GrouperLess(j1, j2) == VarPairLess(judgement_grouper(j1), judgement_grouper(j2))

\* ",".join(c.name for c in conditions)
RECURSIVE JoinNames(_)
JoinNames(cs) ==
    IF cs = <<>> THEN <<>>
    ELSE IF Len(cs) = 1 THEN Name(cs[1])
    ELSE Name(cs[1]) \o <<44>> \o JoinNames(Tail(cs))

\* len_lex without the lexicographic part.
len_lex_len_only(j) == <<Len(j.conditions), <<>>>>

len_lex(j) == <<Len(j.conditions), JoinNames(j.conditions)>>

\* order.index(v), counted from 0.
Index(ord, v) == (CHOOSE i \in 1..Len(ord) : ord[i] = v) - 1

RECURSIVE SumIndex(_, _)
SumIndex(cs, ord) ==
    IF cs = <<>> THEN 0 ELSE Index(ord, cs[1]) + SumIndex(Tail(cs), ord)

topological_policy(j, ord) == <<Len(j.conditions), SumIndex(j.conditions, ord)>>

\* key(j1) < key(j2) under the policy.
PolicyLess(pol, ord, j1, j2) ==
    IF pol = "len_lex"
    THEN LET k1 == len_lex(j1)
             k2 == len_lex(j2)
         IN  k1[1] < k2[1] \/ (k1[1] = k2[1] /\ StrLess(k1[2], k2[2]))
    ELSE IntPairLess(topological_policy(j1, ord), topological_policy(j2, ord))

\* sorted(judgements, key=_judgement_grouper): stable.
RECURSIVE InsertSorted(_, _)
InsertSorted(s, j) ==
    IF s = <<>> THEN <<j>>
    ELSE IF GrouperLess(j, Head(s)) THEN <<j>> \o s
    ELSE <<Head(s)>> \o InsertSorted(Tail(s), j)

RECURSIVE sorted_by_grouper(_)
sorted_by_grouper(s) ==
    IF s = <<>> THEN <<>>
    ELSE InsertSorted(sorted_by_grouper(SubSeq(s, 1, Len(s) - 1)), s[Len(s)])

\* groupby(judgements, _judgement_grouper): the runs of consecutive equal keys.
RECURSIVE groupby(_)
groupby(s) ==
    IF s = <<>> THEN <<>>
    ELSE LET k == judgement_grouper(s[1])
             n == CHOOSE m \in 1..Len(s) :
                     /\ \A i \in 1..m : judgement_grouper(s[i]) = k
                     /\ (m < Len(s) => judgement_grouper(s[m + 1]) # k)
         IN  <<SubSeq(s, 1, n)>> \o groupby(SubSeq(s, n + 1, Len(s)))

\* min(vs, key=policy): the first element of the smallest key.
RECURSIVE MinFrom(_, _, _, _)
MinFrom(best, rest, pol, ord) ==
    IF rest = <<>> THEN best
    ELSE MinFrom(IF PolicyLess(pol, ord, Head(rest), best) THEN Head(rest) ELSE best,
                 Tail(rest), pol, ord)

min_by(vs, pol, ord) == MinFrom(Head(vs), Tail(vs), pol, ord)

minimal(judgements, pol, ord) ==
    LET groups == groupby(sorted_by_grouper(judgements))
    IN  {min_by(groups[g], pol, ord) : g \in 1..Len(groups)}

------------------------------------------------------------------------------
(* The reducer on its own: judgements arrive one by one, then minimal is    *)
(* called on what arrived.                                                  *)

MinVars == 1..NumVars

Ascending(n) == [i \in 1..n |-> i]
Descending(n) == [i \in 1..n |-> n + 1 - i]

\* The judgements that can arrive: true d-separations of a pair among the last
\* three variables given at most MaxConds of the remaining variables.
PairVars == (NumVars - 2)..NumVars

Arrivals ==
    UNION {{create(e[1], e[2], C, TRUE) :
               C \in {X \in SUBSET (MinVars \ {e[1], e[2]}) : Cardinality(X) <= MaxConds}} :
           e \in {x \in PairVars \X PairVars : x[1] # x[2]}}

MinInit ==
    /\ graph = [nodes |-> MinVars, di |-> {}, bi |-> {}, ud |-> {}]
    /\ kind = "NxMixedGraph"
    /\ nonvar = {}
    /\ order = <<>>
    /\ max_conditions = <<>>
    /\ return_all = TRUE
    /\ policy = "len_lex" /\ topo = <<>>
    /\ pi = 0 /\ ci = 0
    /\ yielded = <<>> /\ tested = <<>> /\ transforms = 0
    /\ pc = "collect"
    /\ result = <<>> /\ raised = "" /\ prev = <<>>
    /\ call = <<>> /\ judgement = <<>>

Arrive(j) ==
    /\ pc = "collect"
    /\ Len(yielded) < MaxJudgements
    /\ yielded' = Append(yielded, j)
    /\ UNCHANGED <<graph, kind, nonvar, order, max_conditions, return_all, policy, topo,
                   pi, ci, tested, transforms, pc, result, raised, prev, call, judgement>>

Reduce(pol, ord) ==
    /\ pc = "collect"
    /\ policy' = pol
    /\ topo' = ord
    /\ result' = <<minimal(yielded, pol, ord)>>
    /\ pc' = "done"
    /\ UNCHANGED <<graph, kind, nonvar, order, max_conditions, return_all,
                   pi, ci, yielded, tested, transforms, raised, prev, call, judgement>>

MinNext ==
    \/ \E j \in Arrivals : Arrive(j)
    \/ Reduce("len_lex", <<>>)
    \/ \E ord \in {Ascending(NumVars), Descending(NumVars)} : Reduce("topological", ord)

MinSpec == MinInit /\ [][MinNext]_vars

------------------------------------------------------------------------------
(* The enumerator d_separations feeding minimal: one call of                *)
(* are_d_separated per step.                                                *)

\* combinations(s, r): the subsequences of s of length r, in the order of itertools.
RECURSIVE combinations(_, _)
combinations(s, r) ==
    IF r = 0 THEN <<<<>>>>
    ELSE IF Len(s) < r THEN <<>>
    ELSE LET with    == combinations(Tail(s), r - 1)
             without == combinations(Tail(s), r)
         IN  [i \in 1..Len(with) |-> <<Head(s)>> \o with[i]] \o without

\* chain of combinations(s, r) for r = lo, lo + 1, ..., hi.
RECURSIVE ChainCombinations(_, _, _)
ChainCombinations(s, lo, hi) ==
    IF lo > hi THEN <<>>
    ELSE combinations(s, lo) \o ChainCombinations(s, lo + 1, hi)

\* powerset(iterable, stop=stop): the subsets by non-decreasing size, of every
\* size when stop is unset (<<>>), of size at most stop[1] otherwise.
powerset(s, stop) ==
    ChainCombinations(s, 0, IF stop = <<>> THEN Len(s) ELSE stop[1])

\* The elements of the sequence ord that are in S, in the order of ord.
RECURSIVE Restrict(_, _)
Restrict(ord, S) ==
    IF ord = <<>> THEN <<>>
    ELSE IF Head(ord) \in S THEN <<Head(ord)>> \o Restrict(Tail(ord), S)
    ELSE Restrict(Tail(ord), S)

\* combinations(vertices, 2), vertices iterated in the order ord.
PairSeq(ord) == combinations(ord, 2)

\* d_separations hands the whole powerset to the loop, whatever max_conditions is.
Candidates_unbounded(ord, a, b, mc) ==
    powerset(Restrict(ord, SeqToSet(ord) \ {a, b}), <<>>)

\* powerset(vertices - {a, b}, stop=max_conditions); the set difference is
\* iterated in the relative order of the vertices set.
Candidates(ord, a, b, mc) ==
    powerset(Restrict(ord, SeqToSet(ord) \ {a, b}), mc)

\* The loop never leaves a pair early.
NextPosition_no_break(sep, ra, p, c, ncands) ==
    IF c < ncands THEN <<p, c + 1>> ELSE <<p + 1, 1>>

\* Where the two loops stand after a test: the next pair after a separation
\* when return_all is false (break) or after the last candidate, else the
\* next candidate.
NextPosition(sep, ra, p, c, ncands) ==
    IF sep /\ ~ra THEN <<p + 1, 1>>
    ELSE IF c < ncands THEN <<p, c + 1>>
    ELSE <<p + 1, 1>>

\* Orders in which the node set is iterated.
Orders(nodes) == {Ascending(Cardinality(nodes)), Descending(Cardinality(nodes))}

\* graph.topological_sort(): an order of the nodes along the directed edges.
TopoOrders(G) ==
    {f \in [1..Cardinality(G.nodes) -> G.nodes] :
        /\ \A i, j \in 1..Cardinality(G.nodes) : i # j => f[i] # f[j]
        /\ \A i, j \in 1..Cardinality(G.nodes) : <<f[i], f[j]>> \in G.di => i < j}

DirectedGraphs(nodes) == {G \in AllGraphs(nodes) : G.bi = {}}

Init ==
    /\ \E n \in 0..NumNodes :
          /\ graph \in DirectedGraphs(1..n)
          /\ nonvar \in {{}, {n} \cap (1..n)}
    /\ kind \in {"NxMixedGraph", "ADMG"}
    /\ order = <<>>
    /\ max_conditions = <<>>
    /\ return_all = FALSE
    /\ policy = "" /\ topo = <<>>
    /\ pi = 0 /\ ci = 0
    /\ yielded = <<>> /\ tested = <<>> /\ transforms = 0
    /\ pc = "idle"
    /\ result = <<>> /\ raised = "" /\ prev = <<>>
    /\ call = <<>> /\ judgement = <<>>

\* The call: d_separations(graph, max_conditions=mc, return_all=ra), its node
\* set iterated in the order ord.
Start(ord, mc, ra) ==
    /\ pc = "idle"
    /\ order' = ord
    /\ max_conditions' = mc
    /\ return_all' = ra
    /\ IF kind = "ADMG"
       THEN /\ raised' = "NoAnankeError"
            /\ pc' = "raised"
            /\ UNCHANGED <<pi, ci>>
       ELSE /\ pc' = "run"
            /\ pi' = 1 /\ ci' = 1
            /\ UNCHANGED raised
    /\ UNCHANGED <<graph, kind, nonvar, policy, topo, yielded, tested, transforms,
                   result, prev, call, judgement>>

\* One turn of the inner loop: test the current pair given the current candidate.
Step ==
    /\ pc = "run"
    /\ pi <= Len(PairSeq(order))
    /\ \E ab \in {PairSeq(order)[pi]} :
       \E cands \in {Candidates(order, ab[1], ab[2], max_conditions)} :
       \E r \in {are_d_separated(graph, kind, nonvar, ab[1], ab[2], SeqToSet(cands[ci]))} :
          /\ tested' = Append(tested, [a |-> ab[1], b |-> ab[2],
                                       conditions |-> SeqToSet(cands[ci])])
          /\ transforms' = transforms + Len(r.evidence)
          /\ IF r.error # ""
             THEN /\ raised' = r.error
                  /\ pc' = "raised"
                  /\ UNCHANGED <<pi, ci, yielded>>
             ELSE /\ yielded' = IF r.value[1].separated
                                THEN Append(yielded, r.value[1]) ELSE yielded
                  /\ \E np \in {NextPosition(r.value[1].separated, return_all,
                                              pi, ci, Len(cands))} :
                        pi' = np[1] /\ ci' = np[2]
                  /\ UNCHANGED <<raised, pc>>
    /\ UNCHANGED <<graph, kind, nonvar, order, max_conditions, return_all, policy, topo,
                   result, prev, call, judgement>>

\* The enumerator is exhausted: minimal(judgements, policy) returns.  pol is
\* "len_lex" for minimal(d_separations(...)) and "topological", with the order
\* ord of get_topological_policy, for get_conditional_independencies.
Finish(pol, ord) ==
    /\ pc = "run"
    /\ pi > Len(PairSeq(order))
    /\ policy' = pol
    /\ topo' = ord
    /\ result' = <<minimal(yielded, pol, ord)>>
    /\ pc' = "done"
    /\ UNCHANGED <<graph, kind, nonvar, order, max_conditions, return_all,
                   pi, ci, yielded, tested, transforms, raised, prev, call, judgement>>

\* get_conditional_independencies(graph) is called once more on the same graph,
\* the node set iterated in the order ord this time.
Again(ord) ==
    /\ pc = "done"
    /\ prev = <<>>
    /\ policy = "topological" /\ max_conditions = <<>> /\ ~return_all
    /\ prev' = result
    /\ order' = ord
    /\ pc' = "run"
    /\ pi' = 1 /\ ci' = 1
    /\ yielded' = <<>> /\ tested' = <<>> /\ transforms' = 0
    /\ result' = <<>>
    /\ UNCHANGED <<graph, kind, nonvar, max_conditions, return_all, policy, topo,
                   raised, call, judgement>>

Next ==
    \/ /\ pc = "idle"
       /\ \E ord \in Orders(graph.nodes), ra \in BOOLEAN :
             \E mc \in {<<>>} \cup {<<k>> : k \in 0..MaxStop} : Start(ord, mc, ra)
    \/ Step
    \/ Finish("len_lex", <<>>)
    \/ /\ pc = "run" /\ pi > Len(PairSeq(order))
       /\ \E ord \in TopoOrders(graph) : Finish("topological", ord)
    \/ /\ pc = "done"
       /\ \E ord \in Orders(graph.nodes) : Again(ord)

Spec == Init /\ [][Next]_vars

------------------------------------------------------------------------------
(* Separation tester on its own: one call of are_d_separated per step.      *)

SepInit ==
    /\ graph \in AllGraphs(Nodes)
    /\ kind = "NxMixedGraph"
    /\ nonvar = {}
    /\ order = <<>>
    /\ max_conditions = <<>>
    /\ return_all = FALSE
    /\ policy = "len_lex" /\ topo = <<>>
    /\ pi = 0 /\ ci = 0
    /\ yielded = <<>> /\ tested = <<>> /\ transforms = 0
    /\ pc = "idle"
    /\ result = <<>> /\ raised = "" /\ prev = <<>>
    /\ call = <<>> /\ judgement = <<>>

Test(a, b, conditions) ==
    /\ pc = "idle"
    /\ call' = <<[a |-> a, b |-> b, conditions |-> conditions]>>
    /\ judgement' = are_d_separated(graph, kind, nonvar, a, b, conditions).value
    /\ pc' = "tested"
    /\ UNCHANGED <<graph, kind, nonvar, order, max_conditions, return_all, policy, topo,
                   pi, ci, yielded, tested, transforms, result, raised, prev>>

SepNext ==
    \E a \in graph.nodes, b \in graph.nodes :
        \E conditions \in SUBSET (graph.nodes \ {a, b}) :
            a # b /\ Test(a, b, conditions)

SepSpec == SepInit /\ [][SepNext]_vars

------------------------------------------------------------------------------
(* Properties of the reducer.                                               *)

Inputs == SeqToSet(yielded)
TheResult == result[1]

SamePair(i, j) == i.left = j.left /\ i.right = j.right

\* Sequences of names in lexicographic order, name by name.
RECURSIVE NamesLeq(_, _)
NamesLeq(cs, ds) ==
    IF cs = <<>> THEN TRUE
    ELSE IF ds = <<>> THEN FALSE
    ELSE IF Name(cs[1]) # Name(ds[1]) THEN StrLess(Name(cs[1]), Name(ds[1]))
    ELSE NamesLeq(Tail(cs), Tail(ds))

\* C5: under the default policy the judgement minimal selects for a group has
\* the fewest conditions of the group, and among those of that size it is the
\* first in lexicographic order of the condition names.
C5_DefaultPolicyMinimal ==
    (pc = "done" /\ policy = "len_lex") =>
        /\ TheResult \subseteq Inputs
        /\ \A i \in Inputs : \E j \in TheResult : SamePair(i, j)
        /\ \A j \in TheResult : \A i \in Inputs :
              SamePair(i, j) =>
                /\ Len(j.conditions) <= Len(i.conditions)
                /\ (Len(j.conditions) = Len(i.conditions)
                        => NamesLeq(j.conditions, i.conditions))

\* A group of two judgements of the same size arriving in reverse lexicographic
\* order, next to another group.
C5_Witness ==
    /\ pc = "done" /\ policy = "len_lex" /\ Len(yielded) = 2
    /\ SamePair(yielded[1], yielded[2])
    /\ Len(yielded[1].conditions) = Len(yielded[2].conditions)
    /\ yielded[1] # yielded[2]
    /\ TheResult = {yielded[2]}

Reorderings(n) == {f \in [1..n -> 1..n] : \A i, j \in 1..n : i # j => f[i] # f[j]}

\* C7: the output of minimal is the same for every order of arrival of the same
\* judgements, under the default policy and under the topological policy.
C7_OrderIndependent ==
    pc = "done" =>
        \A f \in Reorderings(Len(yielded)) :
            minimal([i \in 1..Len(yielded) |-> yielded[f[i]]], policy, topo) = TheResult

------------------------------------------------------------------------------
(* d-separation by its definition on paths.  A path is a sequence of        *)
(* distinct nodes with, for each step, the edge it takes: "fwd" (u -> v),   *)
(* "bwd" (u <- v) or "bi" (u <-> v).                                        *)

RECURSIVE descendants(_, _)
descendants(G, S) ==
    LET P == S \cup {v \in G.nodes : \E u \in S : <<u, v>> \in G.di}
    IN  IF P = S THEN S ELSE descendants(G, P)

StepKinds(G, u, v) ==
    {k \in {"fwd", "bwd", "bi"} :
        \/ k = "fwd" /\ <<u, v>> \in G.di
        \/ k = "bwd" /\ <<v, u>> \in G.di
        \/ k = "bi" /\ (<<u, v>> \in G.bi \/ <<v, u>> \in G.bi)}

NodePaths(G, a, b) ==
    {p \in UNION {[1..n -> G.nodes] : n \in 2..Cardinality(G.nodes)} :
        /\ p[1] = a /\ p[Len(p)] = b
        /\ \A i, j \in 1..Len(p) : i # j => p[i] # p[j]
        /\ \A i \in 1..(Len(p) - 1) : StepKinds(G, p[i], p[i + 1]) # {}}

EdgeChoices(G, p) ==
    {ks \in [1..(Len(p) - 1) -> {"fwd", "bwd", "bi"}] :
        \A i \in 1..(Len(p) - 1) : ks[i] \in StepKinds(G, p[i], p[i + 1])}

\* Two arrowheads meet at the inner node i of the path.
IsCollider(ks, i) == ks[i - 1] \in {"fwd", "bi"} /\ ks[i] \in {"bwd", "bi"}

PathBlocked(G, p, ks, C) ==
    \E i \in 2..(Len(p) - 1) :
        IF IsCollider(ks, i)
        THEN descendants(G, {p[i]}) \cap C = {}
        ELSE p[i] \in C

DSeparatedByPaths(G, a, b, C) ==
    \A p \in NodePaths(G, a, b) : \A ks \in EdgeChoices(G, p) : PathBlocked(G, p, ks, C)

TheCall == call[1]
TheJudgement == judgement[1]

\* C1: on a directed acyclic graph (no bidirected edge) the separated flag of
\* are_d_separated(G, a, b, C) is true exactly when every path between a and b
\* is blocked by C (a non-collider in C, or a collider with no descendant in C).
C1_DagMatchesPaths ==
    (pc = "tested" /\ graph.bi = {}) =>
        (TheJudgement.separated
            <=> DSeparatedByPaths(graph, TheCall.a, TheCall.b, TheCall.conditions))

\* The collider A -> C <- B conditioned on C: not separated.
C1_Witness ==
    /\ pc = "tested" /\ graph.bi = {} /\ graph.di = {<<1, 3>>, <<2, 3>>}
    /\ TheCall.a = 1 /\ TheCall.b = 2 /\ TheCall.conditions = {3}
    /\ ~TheJudgement.separated

\* C2: on a graph with bidirected edges the separated flag of are_d_separated
\* is true exactly when every path is blocked, a collider being a node where
\* two arrowheads (of directed or bidirected edges) meet.
C2_MixedMatchesPaths ==
    (pc = "tested" /\ graph.bi # {}) =>
        (TheJudgement.separated
            <=> DSeparatedByPaths(graph, TheCall.a, TheCall.b, TheCall.conditions))

\* C3: are_d_separated(G, a, b, C) and are_d_separated(G, b, a, C) return equal
\* judgements (same left, right, conditions and separated flag).
C3_Symmetric ==
    pc = "tested" =>
        are_d_separated(graph, kind, nonvar, TheCall.b, TheCall.a,
                        TheCall.conditions).value = judgement

\* A call whose arguments arrive in reverse name order and are separated.
C3_Witness ==
    /\ pc = "tested" /\ StrLess(Name(TheCall.b), Name(TheCall.a))
    /\ TheJudgement.left = TheCall.b /\ TheJudgement.separated
    /\ TheCall.conditions # {}

------------------------------------------------------------------------------
(* Properties of the enumerator and of the whole computation.               *)

\* The separated flag of are_d_separated on the graph of the state.
Separates(a, b, C) ==
    are_d_separated(graph, "NxMixedGraph", {}, a, b, C).value[1].separated

NodePairs == {e \in graph.nodes \X graph.nodes : e[1] < e[2]}

Others(e) == graph.nodes \ {e[1], e[2]}

\* The condition sets max_conditions admits for the pair e.
Admitted(e) ==
    {C \in SUBSET Others(e) :
        max_conditions = <<>> \/ Cardinality(C) <= max_conditions[1]}

IsPair(x, e) == {x[1], x[2]} = {e[1], e[2]}

TestsOf(e) == {i \in 1..Len(tested) : IsPair(<<tested[i].a, tested[i].b>>, e)}

YieldsOf(e) == {i \in 1..Len(yielded) : IsPair(<<yielded[i].left, yielded[i].right>>, e)}

Exhausted == pc = "done"

\* C4: minimal(d_separations(G, return_all=True)) holds exactly one judgement
\* for each pair of nodes that some condition set d-separates, and none for a
\* pair that no condition set separates.
C4_PairCoverage ==
    (Exhausted /\ return_all /\ max_conditions = <<>> /\ policy = "len_lex") =>
        /\ \A e \in NodePairs :
              Cardinality({j \in TheResult : IsPair(<<j.left, j.right>>, e)})
                = IF \E C \in SUBSET Others(e) : Separates(e[1], e[2], C) THEN 1 ELSE 0
        /\ \A j \in TheResult : \E e \in NodePairs : IsPair(<<j.left, j.right>>, e)

\* Four nodes, a pair with several separating sets and a pair with none.
C4_Witness ==
    /\ Exhausted /\ return_all /\ max_conditions = <<>> /\ policy = "len_lex"
    /\ Cardinality(graph.nodes) = 4
    /\ \E e \in NodePairs : Cardinality(YieldsOf(e)) > 1
    /\ \E e \in NodePairs : YieldsOf(e) = {}

\* C6: get_conditional_independencies(graph) returns the same set whatever the
\* order in which the node set is iterated.
C6_OrderIndependent ==
    (Exhausted /\ prev # <<>> /\ policy = "topological") => result = prev

InvolvesNonVariable(t) == {t.a, t.b} \cap nonvar # {} \/ t.conditions \cap nonvar # {}

\* C8: a type violation or an unsupported graph ends the call in that error
\* with no independence set returned, also after judgements were found; the
\* failing call of are_d_separated performs no graph transform.
C8_ErrorsAbort ==
    /\ pc = "raised" => result = <<>>
    /\ \A i \in 1..Len(tested) :
          InvolvesNonVariable(tested[i]) =>
              /\ pc = "raised" /\ raised = "TypeError"
              /\ i = Len(tested)
              /\ transforms = Len(tested) - 1
    /\ (kind = "ADMG" /\ pc # "idle") =>
          /\ pc = "raised" /\ raised = "NoAnankeError"
          /\ tested = <<>> /\ transforms = 0

\* A type error after judgements were already found.
C8_Witness ==
    /\ pc = "raised" /\ raised = "TypeError"
    /\ yielded # <<>> /\ result = <<>>

\* C9: the candidates of a pair are visited in non-decreasing size; with
\* return_all false the pair is left at its first separating set, so at most one
\* judgement per pair is yielded, it is separated and of the smallest separating
\* size, and every pair is still searched; with return_all true every separating
\* condition set of every pair is yielded.
C9_FirstHit ==
    /\ \A i \in 1..Len(yielded) : yielded[i].separated
    /\ \A i \in 1..(Len(tested) - 1) :
          IsPair(<<tested[i].a, tested[i].b>>, <<tested[i + 1].a, tested[i + 1].b>>)
              => Cardinality(tested[i].conditions) <= Cardinality(tested[i + 1].conditions)
    /\ ~return_all =>
          /\ \A e \in NodePairs : Cardinality(YieldsOf(e)) <= 1
          /\ \A i \in 1..Len(yielded) :
                \A C \in Admitted(<<yielded[i].left, yielded[i].right>>) :
                    Separates(yielded[i].left, yielded[i].right, C)
                        => Len(yielded[i].conditions) <= Cardinality(C)
          /\ \A i \in 1..(Len(tested) - 1) :
                Separates(tested[i].a, tested[i].b, tested[i].conditions)
                    => ~IsPair(<<tested[i].a, tested[i].b>>,
                               <<tested[i + 1].a, tested[i + 1].b>>)
    /\ Exhausted =>
          \A e \in NodePairs :
              /\ TestsOf(e) # {}
              /\ \A C \in Admitted(e) :
                    Separates(e[1], e[2], C) =>
                        IF return_all
                        THEN create(e[1], e[2], C, TRUE) \in Inputs
                        ELSE YieldsOf(e) # {}

\* A finished first-hit search that had to go past the empty set for one pair
\* and yielded for other pairs too.
C9_Witness ==
    /\ Exhausted /\ ~return_all /\ max_conditions = <<>>
    /\ Len(yielded) >= 2
    /\ \E i \in 1..Len(yielded) : Len(yielded[i].conditions) = 1
    /\ \E e \in NodePairs : YieldsOf(e) = {} /\ Cardinality(TestsOf(e)) = 4

====
